---- MODULE Spec2Model ----
(***************************************************************************)
(* A model of the inline toolbar header (InlineHeader.ts) of the silver    *)
(* theme: visibility, docking-mode resolution, chrome positioning.         *)
(*                                                                         *)
(* Lengths are in half pixels, so that fractional bounding boxes and       *)
(* Math.round can be told apart: Px(n) is n whole pixels.  An Optional is  *)
(* a sequence of length 0 (none) or 1 (some).                              *)
(***************************************************************************)
EXTENDS Integers, Sequences, FiniteSets, TLC

VARIABLES
    \* configuration, resolved once at construction (lines 36-43)
    useFixedToolbarContainer, isSticky, toolbarLocation, toolbarMode,
    editorMaxWidthOpt,
    \* collaborators outside the header
    removed,            \* editor.removed
    floatContainer,     \* the Singleton holds a component
    geom,               \* what the geometry queries currently answer
    \* state owned or written by the header
    visible,            \* Cell(false), line 45
    dockingMode,        \* headerBackstage docking mode
    dockingModes,       \* modes the Docking behaviour allows
    verticalDir,        \* VerticalDir attribute of the float container
    floatMaxWidth,      \* max-width style of the float container
    outerDisplay, outerPosition, outerLeft, outerTop, outerWidth,
    editFocus,          \* body carries mce-edit-focus
    mothershipDisplay,  \* display style of uiMothership.element
    \* history of the last call
    calcResult,         \* Optional: what calcMode last returned
    lastCall,           \* [op, arg] of the last operation
    log,                \* the calls and writes it made, in order
    \* DomMovement.js: a navigable component and its last key handler run
    navDirection,       \* text direction of component.element()
    navManaged,         \* info.focusManager() holds a manager
    domFocus,           \* Optional: the descendant holding DOM focus
    managerFocus,       \* Optional: what the focus manager reports
    navCall,            \* the handler last run
    navLog,             \* the calls it made, in order
    navOutcome,         \* Optional: what it returned
    \* the selector-changed registry, for one selector
    selSetup,             \* setup() has run: the maps exist, NodeChange is heard
    arrays,               \* the callback arrays, by identity
    selectorChangedData,  \* Optional: the array under the selector's key
    currentSelectors,     \* Optional: the array under the selector's key
    selMatches,           \* the selection start has a parent the selector matches
    round,                \* the NodeChange handler's position
    registered,           \* callbacks passed to selectorChangedWithUnbind
    unbound,              \* callbacks whose unbind() has been called
    invoked,              \* Optional: the notification the last step delivered
    received,             \* per callback, Optional: the active it last received
    \* the iframe manager (HorizontalScrollingDemo.ts, lines 41-148)
    loadListeners,        \* listeners bound on the iframe's 'load'
    loadedBinder,         \* Optional: the listener loadedBinder holds
    unloadListeners,      \* listeners bound on the window's 'unload'
    unloadBinder,         \* Optional: the listener unloadBinder holds
    resetHooked,          \* reset is bound to 'remove' and 'BeforeUnload'
    srcdoc,               \* Optional: the content given to the iframe
    reloadPending,        \* the timeout of the restore handler is running
    loadCalls,            \* number of load() calls so far
    loadedRuns,           \* per load() call, the runs of its loaded callback
    restored,             \* the restore handler has run
    sinceReset,           \* reset() was called and load() not since
    ifrCall,              \* the operation or event last run
    ifrInvoked            \* Optional: the callback it invoked

cfgVars == <<useFixedToolbarContainer, isSticky, toolbarLocation, toolbarMode,
             editorMaxWidthOpt>>
envVars == <<removed, floatContainer, geom>>
domVars == <<visible, dockingMode, dockingModes, verticalDir, floatMaxWidth,
             outerDisplay, outerPosition, outerLeft, outerTop, outerWidth,
             editFocus, mothershipDisplay>>
navVars == <<navDirection, navManaged, domFocus, managerFocus, navCall, navLog,
             navOutcome>>
selVars == <<selSetup, arrays, selectorChangedData, currentSelectors, selMatches,
             round, registered, unbound, invoked, received>>
ifrVars == <<loadListeners, loadedBinder, unloadListeners, unloadBinder, resetHooked,
             srcdoc, reloadPending, loadCalls, loadedRuns, restored, sinceReset,
             ifrCall, ifrInvoked>>
headerVars == <<cfgVars, envVars, domVars, calcResult, lastCall, log>>
vars == <<headerVars, navVars, selVars, ifrVars>>

----------------------------------------------------------------------------
\* Units and small helpers

Px(n) == 2 * n

\* Math.round of a length, as a length: halves round up
Round(v) == Px((v + 1) \div 2)

Max(a, b) == IF a >= b THEN a ELSE b
Min(a, b) == IF a <= b THEN a ELSE b

None == <<>>
Some(v) == <<v>>

----------------------------------------------------------------------------
\* Bounds of the geometry the mode resolver is tried on (10 px grid)

MaxCoord == 6

Grid == {Px(10 * i) : i \in 0..MaxCoord}

Modes == {"top", "bottom"}
ToolbarLocations == {"auto", "top", "bottom"}
ToolbarModes == {"sliding", "floating", "wrap"}

----------------------------------------------------------------------------
\* The header's view of its own state: the record the operations transform

Cur ==
    [visible |-> visible, dockingMode |-> dockingMode,
     dockingModes |-> dockingModes, verticalDir |-> verticalDir,
     floatMaxWidth |-> floatMaxWidth, outerDisplay |-> outerDisplay,
     outerPosition |-> outerPosition, outerLeft |-> outerLeft,
     outerTop |-> outerTop, outerWidth |-> outerWidth,
     editFocus |-> editFocus, mothershipDisplay |-> mothershipDisplay,
     calcResult |-> calcResult, log |-> <<>>]

Apply(s) ==
    /\ visible' = s.visible
    /\ dockingMode' = s.dockingMode
    /\ dockingModes' = s.dockingModes
    /\ verticalDir' = s.verticalDir
    /\ floatMaxWidth' = s.floatMaxWidth
    /\ outerDisplay' = s.outerDisplay
    /\ outerPosition' = s.outerPosition
    /\ outerLeft' = s.outerLeft
    /\ outerTop' = s.outerTop
    /\ outerWidth' = s.outerWidth
    /\ editFocus' = s.editFocus
    /\ mothershipDisplay' = s.mothershipDisplay
    /\ calcResult' = s.calcResult
    /\ log' = s.log

Logged(s, e) == [s EXCEPT !.log = Append(@, e)]

----------------------------------------------------------------------------
\* InlineHeader.ts

\* uiComponents.outerContainer is always handed to the header
hasOuterContainer == TRUE

isSplitToolbar == toolbarMode \in {"sliding", "floating"}

\* as if the editor's removal were not looked at
IsVisible_IgnoresRemoved(s) == s.visible

IsVisible(s) == s.visible /\ ~removed

\* headerBackstage.isPositionedAtTop reads the stored docking mode
IsPositionedAtTop(s) == s.dockingMode = "top"

CalcToolbarOffset(g) ==
    IF isSplitToolbar
    THEN IF g.toolbar = None
         THEN 0
         ELSE IF g.toolbar[1] > 1 THEN g.overflowHeight ELSE 0
    ELSE 0

\* as if room below in the document were looked at before room above
AutoMode_BottomFirst(g) ==
    LET toolbarHeight == g.containerHeight - CalcToolbarOffset(g)
        docHeight == Max(g.scrollHeight, g.docElHeight)
    IN  IF g.bottom < docHeight - toolbarHeight
        THEN "bottom"
        ELSE IF g.y > toolbarHeight
             THEN "top"
             ELSE IF g.winBottom < g.bottom - toolbarHeight THEN "bottom" ELSE "top"

\* as if the viewport comparison were inclusive
AutoMode_ViewportInclusive(g) ==
    LET toolbarHeight == g.containerHeight - CalcToolbarOffset(g)
        docHeight == Max(g.scrollHeight, g.docElHeight)
    IN  IF g.y > toolbarHeight
        THEN "top"
        ELSE IF g.bottom < docHeight - toolbarHeight
             THEN "bottom"
             ELSE IF g.winBottom <= g.bottom - toolbarHeight THEN "bottom" ELSE "top"

\* as if the two outcomes of the viewport comparison were swapped
AutoMode_TieBreakSwapped(g) ==
    LET toolbarHeight == g.containerHeight - CalcToolbarOffset(g)
        docHeight == Max(g.scrollHeight, g.docElHeight)
    IN  IF g.y > toolbarHeight
        THEN "top"
        ELSE IF g.bottom < docHeight - toolbarHeight
             THEN "bottom"
             ELSE IF g.winBottom < g.bottom - toolbarHeight THEN "top" ELSE "bottom"

\* case ToolbarLocation.auto of calcMode
AutoMode(g) ==
    LET offset == CalcToolbarOffset(g)
        toolbarHeight == g.containerHeight - offset
        roomAtTop == g.y > toolbarHeight
    IN  IF roomAtTop
        THEN "top"
        ELSE LET docHeight == Max(g.scrollHeight, g.docElHeight)
                 roomAtBottom == g.bottom < docHeight - toolbarHeight
             IN  IF roomAtBottom
                 THEN "bottom"
                 ELSE LET isRoomAtBottomViewport ==
                              g.winBottom < g.bottom - toolbarHeight
                      IN  IF isRoomAtBottomViewport THEN "bottom" ELSE "top"

\* as if the bottom case were missing and fell to the default
CalcMode_NoBottomCase(g) ==
    CASE toolbarLocation = "auto" -> AutoMode(g)
      [] OTHER -> "top"

CalcMode(g) ==
    CASE toolbarLocation = "auto" -> AutoMode(g)
      [] toolbarLocation = "bottom" -> "bottom"
      [] OTHER -> "top"

\* as if the vertical direction were read before the new mode is stored
SetupMode_DirectionBeforeMode(s, mode) ==
    IF floatContainer
    THEN LET s1 == Logged([s EXCEPT !.dockingModes = {mode}], "Docking.setModes")
             dir == IF IsPositionedAtTop(s1) THEN "toptobottom" ELSE "bottomtotop"
             s2 == Logged([s1 EXCEPT !.dockingMode = mode], "setDockingMode")
         IN  Logged([s2 EXCEPT !.verticalDir = dir], "float.verticalDir")
    ELSE s

SetupMode(s, mode) ==
    IF floatContainer
    THEN LET s1 == Logged([s EXCEPT !.dockingModes = {mode}], "Docking.setModes")
             s2 == Logged([s1 EXCEPT !.dockingMode = mode], "setDockingMode")
             dir == IF IsPositionedAtTop(s2) THEN "toptobottom" ELSE "bottomtotop"
         IN  Logged([s2 EXCEPT !.verticalDir = dir], "float.verticalDir")
    ELSE s

UpdateChromeWidth(s, g) ==
    LET s0 == Logged(s, "updateChromeWidth")
    IN  IF floatContainer
        THEN LET maxWidth == IF editorMaxWidthOpt # None
                             THEN editorMaxWidthOpt[1]
                             ELSE g.bodyWidth - g.x + g.bodyMargin
             IN  Logged([s0 EXCEPT !.floatMaxWidth = Some(maxWidth)], "float.max-width")
        ELSE s0

minimumToolbarWidth == 150

\* as if the width were not held to the minimum
UpdateChromePosition_NoMinimum(s, optToolbarWidth, g) ==
    LET s0 == Logged(s, "updateChromePosition")
    IN  IF floatContainer
        THEN LET offset == CalcToolbarOffset(g)
                 top == IF IsPositionedAtTop(s0)
                        THEN Max(g.y - g.containerHeight + offset, 0)
                        ELSE g.bottom
                 s1 == [s0 EXCEPT !.outerPosition = Some("absolute"),
                                  !.outerLeft = Some(Round(g.x)),
                                  !.outerTop = Some(Round(top))]
                 s2 == IF optToolbarWidth # None /\ g.x > g.innerWidth
                       THEN LET availableWidth == g.innerWidth - (g.x - g.scrollLeft)
                                width == Min(optToolbarWidth[1], availableWidth)
                            IN  [s1 EXCEPT !.outerWidth = Some(width)]
                       ELSE s1
             IN  Logged(s2, "outer.setAll")
        ELSE s0

\* as if the top were not held at 0 in top mode
UpdateChromePosition_NoClamp(s, optToolbarWidth, g) ==
    LET s0 == Logged(s, "updateChromePosition")
    IN  IF floatContainer
        THEN LET offset == CalcToolbarOffset(g)
                 top == IF IsPositionedAtTop(s0)
                        THEN g.y - g.containerHeight + offset
                        ELSE g.bottom
                 s1 == [s0 EXCEPT !.outerPosition = Some("absolute"),
                                  !.outerLeft = Some(Round(g.x)),
                                  !.outerTop = Some(Round(top))]
                 s2 == IF optToolbarWidth # None /\ g.x > g.innerWidth
                       THEN LET availableWidth == g.innerWidth - (g.x - g.scrollLeft)
                                width == Max(Px(minimumToolbarWidth),
                                             Min(optToolbarWidth[1], availableWidth))
                            IN  [s1 EXCEPT !.outerWidth = Some(width)]
                       ELSE s1
             IN  Logged(s2, "outer.setAll")
        ELSE s0

UpdateChromePosition(s, optToolbarWidth, g) ==
    LET s0 == Logged(s, "updateChromePosition")
    IN  IF floatContainer
        THEN LET offset == CalcToolbarOffset(g)
                 top == IF IsPositionedAtTop(s0)
                        THEN Max(g.y - g.containerHeight + offset, 0)
                        ELSE g.bottom
                 s1 == [s0 EXCEPT !.outerPosition = Some("absolute"),
                                  !.outerLeft = Some(Round(g.x)),
                                  !.outerTop = Some(Round(top))]
                 s2 == IF optToolbarWidth # None /\ g.x > g.innerWidth
                       THEN LET availableWidth == g.innerWidth - (g.x - g.scrollLeft)
                                width == Max(Px(minimumToolbarWidth),
                                             Min(optToolbarWidth[1], availableWidth))
                            IN  [s1 EXCEPT !.outerWidth = Some(width)]
                       ELSE s1
             IN  Logged(s2, "outer.setAll")
        ELSE s0

RepositionPopups(s) == Logged(s, "repositionPopups")

\* as if the reset pass ran under a fixed toolbar container too
RestoreAndGetCompleteOuterContainerWidth_Unguarded(s, g) ==
    [s |-> Logged([s EXCEPT !.outerPosition = Some("absolute"),
                            !.outerLeft = Some(0),
                            !.outerWidth = None],
                  "restoreWidth"),
     w |-> Some(g.fullWidth)]

\* returns the state after the reset pass and the width it measured
RestoreAndGetCompleteOuterContainerWidth(s, g) ==
    IF ~useFixedToolbarContainer
    THEN [s |-> Logged([s EXCEPT !.outerPosition = Some("absolute"),
                                 !.outerLeft = Some(0),
                                 !.outerWidth = None],
                       "restoreWidth"),
          w |-> Some(g.fullWidth)]
    ELSE [s |-> s, w |-> None]

\* as if the split toolbar were refreshed before the full width is measured
UpdateChromeUi_RefreshBeforeMeasure(s, resetDocking, g) ==
    IF ~IsVisible(s)
    THEN s
    ELSE LET s0 == Logged(s, IF resetDocking THEN "updateChromeUi:reset"
                                             ELSE "updateChromeUi:refresh")
             s1 == IF ~useFixedToolbarContainer THEN UpdateChromeWidth(s0, g) ELSE s0
             s2 == IF isSplitToolbar THEN Logged(s1, "refreshToolbar") ELSE s1
             r  == RestoreAndGetCompleteOuterContainerWidth(s2, g)
             s3 == IF ~useFixedToolbarContainer
                   THEN UpdateChromePosition(r.s, r.w, g)
                   ELSE r.s
             s4 == IF isSticky /\ floatContainer
                   THEN Logged(s3, IF resetDocking THEN "Docking.reset"
                                                   ELSE "Docking.refresh")
                   ELSE s3
         IN  RepositionPopups(s4)

\* as if docking were refreshed whatever resetDocking says
UpdateChromeUi_AlwaysRefreshes(s, resetDocking, g) ==
    IF ~IsVisible(s)
    THEN s
    ELSE LET s0 == Logged(s, IF resetDocking THEN "updateChromeUi:reset"
                                             ELSE "updateChromeUi:refresh")
             s1 == IF ~useFixedToolbarContainer THEN UpdateChromeWidth(s0, g) ELSE s0
             r  == RestoreAndGetCompleteOuterContainerWidth(s1, g)
             s2 == IF isSplitToolbar THEN Logged(r.s, "refreshToolbar") ELSE r.s
             s3 == IF ~useFixedToolbarContainer
                   THEN UpdateChromePosition(s2, r.w, g)
                   ELSE s2
             s4 == IF isSticky /\ floatContainer
                   THEN Logged(s3, "Docking.refresh")
                   ELSE s3
         IN  RepositionPopups(s4)

\* as if the update pass settled the docking mode itself
UpdateChromeUi_RecalculatesMode(s, resetDocking, g) ==
    IF ~IsVisible(s)
    THEN s
    ELSE LET s0 == Logged(s, IF resetDocking THEN "updateChromeUi:reset"
                                             ELSE "updateChromeUi:refresh")
             sm == IF isSticky THEN SetupMode(s0, CalcMode(g)) ELSE s0
             s1 == IF ~useFixedToolbarContainer THEN UpdateChromeWidth(sm, g) ELSE sm
             r  == RestoreAndGetCompleteOuterContainerWidth(s1, g)
             s2 == IF isSplitToolbar THEN Logged(r.s, "refreshToolbar") ELSE r.s
             s3 == IF ~useFixedToolbarContainer
                   THEN UpdateChromePosition(s2, r.w, g)
                   ELSE s2
             s4 == IF isSticky /\ floatContainer
                   THEN Logged(s3, IF resetDocking THEN "Docking.reset"
                                                   ELSE "Docking.refresh")
                   ELSE s3
         IN  RepositionPopups(s4)

UpdateChromeUi(s, resetDocking, g) ==
    IF ~IsVisible(s)
    THEN s
    ELSE LET s0 == Logged(s, IF resetDocking THEN "updateChromeUi:reset"
                                             ELSE "updateChromeUi:refresh")
             s1 == IF ~useFixedToolbarContainer THEN UpdateChromeWidth(s0, g) ELSE s0
             r  == RestoreAndGetCompleteOuterContainerWidth(s1, g)
             s2 == IF isSplitToolbar THEN Logged(r.s, "refreshToolbar") ELSE r.s
             s3 == IF ~useFixedToolbarContainer
                   THEN UpdateChromePosition(s2, r.w, g)
                   ELSE s2
             s4 == IF isSticky /\ floatContainer
                   THEN Logged(s3, IF resetDocking THEN "Docking.reset"
                                                   ELSE "Docking.refresh")
                   ELSE s3
         IN  RepositionPopups(s4)

\* as if the update pass ran whether or not the mode changed
UpdateMode_AlwaysUpdates(s, updateUi, g) ==
    IF useFixedToolbarContainer \/ ~isSticky \/ ~IsVisible(s)
    THEN s
    ELSE IF floatContainer
         THEN LET currentMode == s.dockingMode
                  newMode == CalcMode(g)
                  s1 == Logged([s EXCEPT !.calcResult = Some(newMode)], "calcMode")
                  s2 == IF newMode # currentMode THEN SetupMode(s1, newMode) ELSE s1
              IN  IF updateUi THEN UpdateChromeUi(s2, TRUE, g) ELSE s2
         ELSE s

\* as if the sticky option were not looked at
UpdateMode_IgnoresSticky(s, updateUi, g) ==
    IF useFixedToolbarContainer \/ ~IsVisible(s)
    THEN s
    ELSE IF floatContainer
         THEN LET currentMode == s.dockingMode
                  newMode == CalcMode(g)
                  s1 == Logged([s EXCEPT !.calcResult = Some(newMode)], "calcMode")
              IN  IF newMode # currentMode
                  THEN LET s2 == SetupMode(s1, newMode)
                       IN  IF updateUi THEN UpdateChromeUi(s2, TRUE, g) ELSE s2
                  ELSE s1
         ELSE s

UpdateMode(s, updateUi, g) ==
    IF useFixedToolbarContainer \/ ~isSticky \/ ~IsVisible(s)
    THEN s
    ELSE IF floatContainer
         THEN LET currentMode == s.dockingMode
                  newMode == CalcMode(g)
                  s1 == Logged([s EXCEPT !.calcResult = Some(newMode)], "calcMode")
              IN  IF newMode # currentMode
                  THEN LET s2 == SetupMode(s1, newMode)
                       IN  IF updateUi THEN UpdateChromeUi(s2, TRUE, g) ELSE s2
                  ELSE s1
         ELSE s

\* as if show let the mode recomputation run its own update pass
ShowOp_ModeUpdatesUi(s, g) ==
    LET s1 == Logged([s EXCEPT !.visible = TRUE], "visible.set:true")
        s2 == Logged([s1 EXCEPT !.outerDisplay = Some("flex")], "outer.display:flex")
        s3 == Logged([s2 EXCEPT !.editFocus = TRUE], "body.addClass")
        s4 == Logged([s3 EXCEPT !.mothershipDisplay = None], "mothership.display:remove")
        s5 == UpdateMode(s4, TRUE, g)
    IN  UpdateChromeUi(s5, FALSE, g)

ShowOp(s, g) ==
    LET s1 == Logged([s EXCEPT !.visible = TRUE], "visible.set:true")
        s2 == Logged([s1 EXCEPT !.outerDisplay = Some("flex")], "outer.display:flex")
        s3 == Logged([s2 EXCEPT !.editFocus = TRUE], "body.addClass")
        s4 == Logged([s3 EXCEPT !.mothershipDisplay = None], "mothership.display:remove")
        s5 == UpdateMode(s4, FALSE, g)
    IN  UpdateChromeUi(s5, FALSE, g)

\* as if hide left the floating UI layer alone
HideOp_KeepsMothership(s) ==
    LET s1 == Logged([s EXCEPT !.visible = FALSE], "visible.set:false")
        a == Logged([s1 EXCEPT !.outerDisplay = Some("none")], "outer.display:none")
    IN  Logged([a EXCEPT !.editFocus = FALSE], "body.removeClass")

HideOp(s) ==
    LET s1 == Logged([s EXCEPT !.visible = FALSE], "visible.set:false")
        s2 == IF hasOuterContainer
              THEN LET a == Logged([s1 EXCEPT !.outerDisplay = Some("none")],
                                   "outer.display:none")
                   IN  Logged([a EXCEPT !.editFocus = FALSE], "body.removeClass")
              ELSE s1
    IN  Logged([s2 EXCEPT !.mothershipDisplay = Some("none")], "mothership.display:none")

----------------------------------------------------------------------------
\* DomMovement.js

MaxItems == 2

\* the focusable descendants of the navigable component
Items == 1..MaxItems

\* Direction.onDirection: picks by the text direction of the element
OnDirection(isLtr, isRtl) == IF navDirection = "rtl" THEN isRtl ELSE isLtr

\* as if west resolved the direction the way east does
West_AsEast(moveLeft, moveRight) == OnDirection(moveRight, moveLeft)

West(moveLeft, moveRight) == OnDirection(moveLeft, moveRight)

East(moveLeft, moveRight) == OnDirection(moveRight, moveLeft)

\* the entries of navLog for a movement function asked and its answer
Asked(move, result) ==
    <<move, IF result = None THEN "returned:none" ELSE "returned:target">>

\* the entry of navLog for the lookup, and what the lookup finds
GetFocused ==
    IF navManaged
    THEN [log |-> <<"manager.get">>, focused |-> managerFocus]
    ELSE [log |-> <<"Focus.search">>, focused |-> domFocus]

\* as if the movement ran from the container when nothing is focused
Use_MovesWithoutFocus(move, result) ==
    LET f == GetFocused
        outcome == result
    IN  [log |-> f.log \o Asked(move, result) \o
                 (IF outcome = None
                  THEN <<>>
                  ELSE IF navManaged THEN <<"manager.set">> ELSE <<"triggerFocus">>),
         dom |-> IF outcome # None /\ ~navManaged THEN outcome ELSE domFocus,
         mgr |-> IF outcome # None /\ navManaged THEN outcome ELSE managerFocus,
         ret |-> IF outcome = None THEN None ELSE Some(TRUE)]

\* as if the component system were told of the new focus in either case
Use_AlwaysTriggersFocus(move, result) ==
    LET f == GetFocused
        outcome == IF f.focused = None THEN None ELSE result
    IN  [log |-> f.log \o
                 (IF f.focused = None THEN <<>> ELSE Asked(move, result)) \o
                 (IF outcome = None
                  THEN <<>>
                  ELSE IF navManaged THEN <<"triggerFocus", "manager.set">>
                                     ELSE <<"triggerFocus">>),
         dom |-> IF outcome # None THEN outcome ELSE domFocus,
         mgr |-> IF outcome # None /\ navManaged THEN outcome ELSE managerFocus,
         ret |-> IF outcome = None THEN None ELSE Some(TRUE)]

\* use(move, component, simulatedEvent, info), for a movement function that
\* answers `result` when it is asked: the calls made, the focus afterwards
\* and the value returned
Use(move, result) ==
    LET f == GetFocused
        outcome == IF f.focused = None THEN None ELSE result
    IN  [log |-> f.log \o
                 (IF f.focused = None THEN <<>> ELSE Asked(move, result)) \o
                 (IF outcome = None
                  THEN <<>>
                  ELSE IF navManaged THEN <<"manager.set">> ELSE <<"triggerFocus">>),
         dom |-> IF outcome # None /\ ~navManaged THEN outcome ELSE domFocus,
         mgr |-> IF outcome # None /\ navManaged THEN outcome ELSE managerFocus,
         ret |-> IF outcome = None THEN None ELSE Some(TRUE)]

\* what a movement function may answer: no target, or any descendant
MoveResults == {None} \cup {Some(i) : i \in Items}

\* one run of a handler built by useH or useV
Handler(name, move) ==
    \E result \in MoveResults :
        LET u == Use(move, result)
        IN  /\ navCall' = name
            /\ navLog' = u.log
            /\ navOutcome' = u.ret
            /\ domFocus' = u.dom
            /\ managerFocus' = u.mgr
            /\ UNCHANGED <<navDirection, navManaged, headerVars, selVars, ifrVars>>

WestKey == Handler("west", West("moveLeft", "moveRight"))

EastKey == Handler("east", East("moveLeft", "moveRight"))

NorthKey == Handler("north", "move")

SouthKey == Handler("south", "move")

MoveKey == Handler("move", "move")

\* focus moves, or leaves the component, by other means
FocusMoves ==
    /\ \E d \in MoveResults, m \in MoveResults :
          /\ <<d, m>> # <<domFocus, managerFocus>>
          /\ domFocus' = d
          /\ managerFocus' = m
    /\ navCall' = "env" /\ navLog' = <<>> /\ navOutcome' = None
    /\ UNCHANGED <<navDirection, navManaged, headerVars, selVars, ifrVars>>

\* no handler has run yet
NavIdle ==
    /\ navDirection = "ltr"
    /\ navManaged = FALSE
    /\ domFocus = None
    /\ managerFocus = None
    /\ navCall = "none"
    /\ navLog = <<>>
    /\ navOutcome = None

----------------------------------------------------------------------------
\* The selector-changed registry (src/unnamed/part_000), for one selector.
\* The two maps hold arrays by reference: an array is an identity in
\* `arrays`, and a map's entry for the selector is an Optional identity.

MaxCallbacks == 3
Callbacks == 1..MaxCallbacks

\* the references alive at once: one per map, the array a round iterates,
\* and one being built
MaxArrays == 4
ArrIds == 1..MaxArrays

Without(xs, callback) == SelectSeq(xs, LAMBDA cb : cb # callback)

\* the identity a new array gets: the first one nothing refers to
NewArray(refs) == CHOOSE i \in ArrIds : i \notin refs /\ \A j \in ArrIds : j < i => j \in refs

Ref(opt) == IF opt = None THEN {} ELSE {opt[1]}

\* arrays nothing refers to any more are gone
Collected(arrs, refs) == [i \in ArrIds |-> IF i \in refs THEN arrs[i] ELSE <<>>]

RoundIdle == [phase |-> "idle", ref |-> None, idx |-> 1, len |-> 0]

\* deleteFromCallbackMap on one map's entry: r.entry is the entry afterwards,
\* r.arrs the arrays; `held` are the references held elsewhere
DeleteFromCallbackMap(arrs, entry, callback, held) ==
    IF entry = None
    THEN [entry |-> None, arrs |-> arrs]
    ELSE LET newCallbacks == Without(arrs[entry[1]], callback)
             new == NewArray(held \cup Ref(entry))
         IN  IF Len(newCallbacks) = 0
             THEN [entry |-> None, arrs |-> arrs]
             ELSE [entry |-> Some(new), arrs |-> [arrs EXCEPT ![new] = newCallbacks]]

SelHistoryKept == UNCHANGED received /\ invoked' = None

\* the registry's interface is called between events, or by the body of the
\* callback a round has just invoked
CallerRuns == round.phase = "idle" \/ round.idx > 1

\* selectorChangedWithUnbind(selector, callback); a callback is registered
\* once in a run, so that its unbind() is the end of it
Register(callback) ==
    /\ CallerRuns
    /\ callback \notin registered
    /\ LET data0 == IF selSetup THEN selectorChangedData ELSE None
           cur0  == IF selSetup THEN currentSelectors ELSE None
           held  == Ref(data0) \cup Ref(cur0) \cup Ref(round.ref)
           data1 == IF data0 = None THEN Some(NewArray(held)) ELSE data0
           arrs1 == [arrays EXCEPT ![data1[1]] = Append(arrays[data1[1]], callback)]
           cur1  == IF selMatches THEN data1 ELSE cur0
       IN  /\ selSetup' = TRUE
           /\ selectorChangedData' = data1
           /\ currentSelectors' = cur1
           /\ arrays' = Collected(arrs1, Ref(data1) \cup Ref(cur1) \cup Ref(round.ref))
    /\ registered' = registered \cup {callback}
    /\ SelHistoryKept
    /\ UNCHANGED <<selMatches, round, unbound, headerVars, navVars, ifrVars>>

\* unbind() of a registration
Unbind(callback) ==
    /\ CallerRuns
    /\ callback \in registered
    /\ LET held == Ref(selectorChangedData) \cup Ref(currentSelectors) \cup Ref(round.ref)
           d == DeleteFromCallbackMap(arrays, selectorChangedData, callback, held)
           c == DeleteFromCallbackMap(d.arrs, currentSelectors, callback,
                                      Ref(d.entry) \cup Ref(round.ref))
       IN  /\ selectorChangedData' = d.entry
           /\ currentSelectors' = c.entry
           /\ arrays' = Collected(c.arrs, Ref(d.entry) \cup Ref(c.entry) \cup Ref(round.ref))
    /\ unbound' = unbound \cup {callback}
    /\ SelHistoryKept
    /\ UNCHANGED <<selSetup, selMatches, round, registered, headerVars, navVars, ifrVars>>

\* the selection moves; NodeChange has not been dispatched for it yet
SelectionMoves ==
    /\ round.phase = "idle"
    /\ selMatches' = ~selMatches
    /\ SelHistoryKept
    /\ UNCHANGED <<selSetup, arrays, selectorChangedData, currentSelectors, round,
                   registered, unbound, headerVars, navVars, ifrVars>>

\* NodeChange is dispatched for the selection: the handler up to the array
\* it will iterate, or to its end when it calls no callback
NodeChange ==
    /\ selSetup
    /\ round.phase = "idle"
    /\ IF selectorChangedData # None /\ selMatches
       THEN IF currentSelectors = None
            THEN /\ round' = [phase |-> "matched", ref |-> selectorChangedData, idx |-> 1,
                              len |-> Len(arrays[selectorChangedData[1]])]
                 /\ UNCHANGED <<currentSelectors, arrays>>
            ELSE UNCHANGED <<round, currentSelectors, arrays>>
       ELSE IF currentSelectors # None
            THEN /\ round' = [phase |-> "unmatched", ref |-> currentSelectors, idx |-> 1,
                              len |-> Len(arrays[currentSelectors[1]])]
                 /\ currentSelectors' = None
                 /\ UNCHANGED arrays
            ELSE UNCHANGED <<round, currentSelectors, arrays>>
    /\ SelHistoryKept
    /\ UNCHANGED <<selSetup, selectorChangedData, selMatches, registered, unbound,
                   headerVars, navVars, ifrVars>>

\* the handler calls the next callback of the array it iterates; what the
\* callback does in its body are the Register and Unbind steps that follow
Notify ==
    /\ round.phase # "idle"
    /\ round.idx <= round.len
    /\ LET callback == arrays[round.ref[1]][round.idx]
           active == round.phase = "matched"
       IN  /\ invoked' = Some([callback |-> callback, active |-> active])
           /\ received' = [received EXCEPT ![callback] = Some(active)]
    /\ round' = [round EXCEPT !.idx = @ + 1]
    /\ UNCHANGED <<selSetup, arrays, selectorChangedData, currentSelectors, selMatches,
                   registered, unbound, headerVars, navVars, ifrVars>>

\* the last callback has returned: the handler runs to its end
RoundEnds ==
    /\ round.phase # "idle"
    /\ round.idx > round.len
    /\ LET cur1 == IF round.phase = "matched" THEN round.ref ELSE currentSelectors
       IN  /\ currentSelectors' = cur1
           /\ arrays' = Collected(arrays, Ref(selectorChangedData) \cup Ref(cur1))
    /\ round' = RoundIdle
    /\ SelHistoryKept
    /\ UNCHANGED <<selSetup, selectorChangedData, selMatches, registered, unbound,
                   headerVars, navVars, ifrVars>>

\* before the first registration
SelIdle ==
    /\ selSetup = FALSE
    /\ arrays = [i \in ArrIds |-> <<>>]
    /\ selectorChangedData = None
    /\ currentSelectors = None
    /\ selMatches = FALSE
    /\ round = RoundIdle
    /\ registered = {}
    /\ unbound = {}
    /\ invoked = None
    /\ received = [callback \in Callbacks |-> None]

----------------------------------------------------------------------------
\* The iframe manager (HorizontalScrollingDemo.ts, create).  A binder is an
\* unbindable Singleton: clear() unbinds the listener it holds, set() clears
\* and then holds the new one.  A load listener is [id, kind, call]: kind
\* "loaded" runs the loaded callback of load() call `call`, kind "restore"
\* the state-restore handler.

MaxLoads == 2
Contents == {"a", "b"}

IfrCur ==
    [loadListeners |-> loadListeners, loadedBinder |-> loadedBinder,
     unloadListeners |-> unloadListeners, unloadBinder |-> unloadBinder,
     resetHooked |-> resetHooked, srcdoc |-> srcdoc, reloadPending |-> reloadPending,
     loadCalls |-> loadCalls, loadedRuns |-> loadedRuns, restored |-> restored]

IfrApply(s) ==
    /\ loadListeners' = s.loadListeners
    /\ loadedBinder' = s.loadedBinder
    /\ unloadListeners' = s.unloadListeners
    /\ unloadBinder' = s.unloadBinder
    /\ resetHooked' = s.resetHooked
    /\ srcdoc' = s.srcdoc
    /\ reloadPending' = s.reloadPending
    /\ loadCalls' = s.loadCalls
    /\ loadedRuns' = s.loadedRuns
    /\ restored' = s.restored

\* the identity DomEvent.bind gives a new listener
NewId(used) == CHOOSE i \in 1..(Cardinality(used) + 1) : i \notin used

Held(binder) == IF binder = None THEN {} ELSE {binder[1]}

\* loadedBinder.clear()
ClearLoadedBinder(s) ==
    [s EXCEPT !.loadListeners = @ \ Held(s.loadedBinder), !.loadedBinder = None]

\* unloadBinder.clear()
ClearUnloadBinder(s) ==
    [s EXCEPT !.unloadListeners = @ \ Held(s.unloadBinder), !.unloadBinder = None]

\* setupLoadBinder: the listener is bound, then the binder set
SetupLoadBinder(s, kind, call) ==
    LET l == [id |-> NewId({x.id : x \in s.loadListeners}), kind |-> kind, call |-> call]
        bound == [s EXCEPT !.loadListeners = @ \cup {l}]
    IN  [ClearLoadedBinder(bound) EXCEPT !.loadedBinder = Some(l)]

\* setupUnloadBinder, up to the binding
SetupUnloadBinder(s) ==
    LET u == NewId(s.unloadListeners)
        bound == [s EXCEPT !.unloadListeners = @ \cup {u}]
    IN  [ClearUnloadBinder(bound) EXCEPT !.unloadBinder = Some(u)]

\* as if the load listener stayed bound after it ran
LoadHandler_StaysBound(s, l) ==
    LET s2 == SetupUnloadBinder(s)
    IN  IF l.kind = "loaded"
        THEN [s2 EXCEPT !.loadedRuns[l.call] = @ + 1]
        ELSE [s2 EXCEPT !.restored = TRUE, !.reloadPending = TRUE]

\* the listener of lines 107-116, and the callback it was bound with
LoadHandler(s, l) ==
    LET s1 == ClearLoadedBinder(s)
        s2 == SetupUnloadBinder(s1)
    IN  IF l.kind = "loaded"
        THEN [s2 EXCEPT !.loadedRuns[l.call] = @ + 1]
        ELSE [s2 EXCEPT !.restored = TRUE, !.reloadPending = TRUE]

\* the listener of lines 46-103
UnloadHandler(s) == SetupLoadBinder(ClearUnloadBinder(s), "restore", 0)

\* init
InitOp(s, content) ==
    LET s1 == SetupLoadBinder(s, "loaded", s.loadCalls + 1)
    IN  [s1 EXCEPT !.loadCalls = @ + 1, !.resetHooked = TRUE, !.srcdoc = Some(content)]

\* reset
ResetOp(s) ==
    [ClearUnloadBinder(ClearLoadedBinder(s)) EXCEPT !.resetHooked = FALSE]

IfrCalled(op, cb) ==
    /\ ifrCall' = op
    /\ ifrInvoked' = cb
    /\ UNCHANGED <<headerVars, navVars, selVars>>

\* manager.load(content, loaded)
Load ==
    /\ loadCalls < MaxLoads
    /\ \E content \in Contents : IfrApply(InitOp(IfrCur, content))
    /\ sinceReset' = FALSE
    /\ IfrCalled("load", None)

\* manager.reset()
Reset ==
    /\ IfrApply(ResetOp(IfrCur))
    /\ sinceReset' = TRUE
    /\ IfrCalled("reset", None)

\* the editor's 'remove' or the manager's 'BeforeUnload' reaches reset
RemoveEvent ==
    /\ resetHooked
    /\ IfrApply(ResetOp(IfrCur))
    /\ sinceReset' = TRUE
    /\ IfrCalled("remove", None)

\* the iframe fires 'load': a listener bound on it runs, if there is one
LoadEvent ==
    /\ IF loadListeners = {}
       THEN IfrApply(IfrCur) /\ IfrCalled("loadEvent", None)
       ELSE \E l \in loadListeners :
              /\ IfrApply(LoadHandler(IfrCur, l))
              /\ IfrCalled("loadEvent", Some(l.kind))
    /\ UNCHANGED sinceReset

\* the window fires 'unload': a listener bound on it runs, if there is one
UnloadEvent ==
    /\ IF unloadListeners = {}
       THEN IfrApply(IfrCur) /\ IfrCalled("unloadEvent", None)
       ELSE \E u \in unloadListeners :
              /\ IfrApply(UnloadHandler(IfrCur))
              /\ IfrCalled("unloadEvent", Some("unload"))
    /\ UNCHANGED sinceReset

\* the timeout of the restore handler fires (lines 94-101)
ReloadTimer ==
    /\ reloadPending
    /\ IfrApply([IfrCur EXCEPT !.reloadPending = FALSE])
    /\ UNCHANGED sinceReset
    /\ IfrCalled("ReloadEditor", None)

\* the manager as created
IfrIdle ==
    /\ loadListeners = {}
    /\ loadedBinder = None
    /\ unloadListeners = {}
    /\ unloadBinder = None
    /\ resetHooked = FALSE
    /\ srcdoc = None
    /\ reloadPending = FALSE
    /\ loadCalls = 0
    /\ loadedRuns = [n \in 1..MaxLoads |-> 0]
    /\ restored = FALSE
    /\ sinceReset = FALSE
    /\ ifrCall = "create"
    /\ ifrInvoked = None

----------------------------------------------------------------------------
\* Geometry the collaborators may report

\* layouts for the header's life cycle: room at top; room below in the
\* document; neither, viewport short of the target's end; neither, viewport
\* at the target's end.  x is fractional and inside the window, or beyond
\* it on a page scrolled to the right.
MainGeoms ==
    {g \in [x : {Px(10) + 1, Px(500)}, y : {Px(10), Px(50)}, bottom : {Px(60)},
            containerHeight : {Px(40)}, toolbar : {Some(2)},
            overflowHeight : {Px(10)}, scrollHeight : {Px(60), Px(200)},
            docElHeight : {Px(60)}, winBottom : {Px(10), Px(60)},
            innerWidth : {Px(400)}, scrollLeft : {Px(0), Px(300)},
            fullWidth : {Px(400)}, bodyWidth : {Px(800)}, bodyMargin : {Px(8)}] :
        /\ g.y = Px(50) => (g.scrollHeight = Px(60) /\ g.winBottom = Px(60))
        /\ g.scrollHeight = Px(200) => g.winBottom = Px(60)
        /\ g.x < g.innerWidth <=> g.scrollLeft = Px(0)}

\* every layout of the grid, for the mode resolver
CalcGeoms ==
    {g \in [x : {Px(10)}, y : Grid, bottom : Grid,
            containerHeight : {Px(30), Px(40), Px(50)},
            toolbar : {None, Some(1), Some(2)},
            overflowHeight : {Px(10)}, scrollHeight : Grid,
            docElHeight : {Px(0), Px(10 * MaxCoord)}, winBottom : Grid,
            innerWidth : {Px(400)}, scrollLeft : {Px(0)},
            fullWidth : {Px(400)}, bodyWidth : {Px(800)}, bodyMargin : {Px(8)}] :
        /\ g.y <= g.bottom
        /\ g.overflowHeight <= g.containerHeight
        \* the target lies in the document, the viewport is not empty and
        \* does not reach past the document
        /\ g.bottom <= Max(g.scrollHeight, g.docElHeight)
        /\ 0 < g.winBottom
        /\ g.winBottom <= Max(g.scrollHeight, g.docElHeight)}

----------------------------------------------------------------------------
\* Initial states: the header as constructed, hidden, nothing styled yet

InitHeader ==
    /\ removed = FALSE
    /\ visible = FALSE
    /\ dockingMode \in Modes
    /\ dockingModes = Modes
    /\ verticalDir = None
    /\ floatMaxWidth = None
    /\ outerDisplay = None
    /\ outerPosition = None
    /\ outerLeft = None
    /\ outerTop = None
    /\ outerWidth = None
    /\ editFocus = FALSE
    /\ mothershipDisplay = None
    /\ calcResult = None
    /\ lastCall = [op |-> "init", arg |-> FALSE]
    /\ log = <<>>
    /\ NavIdle
    /\ SelIdle
    /\ IfrIdle

Init ==
    /\ useFixedToolbarContainer \in BOOLEAN
    /\ isSticky \in BOOLEAN
    /\ toolbarLocation \in ToolbarLocations
    /\ toolbarMode \in {"floating", "wrap"}
    /\ editorMaxWidthOpt \in {None, Some(Px(300))}
    /\ floatContainer \in BOOLEAN
    /\ geom \in MainGeoms
    /\ InitHeader

InitCalcMode ==
    /\ useFixedToolbarContainer = FALSE
    /\ isSticky = TRUE
    /\ toolbarLocation \in ToolbarLocations
    /\ toolbarMode \in ToolbarModes
    /\ editorMaxWidthOpt = None
    /\ floatContainer = TRUE
    /\ geom \in CalcGeoms
    /\ InitHeader

----------------------------------------------------------------------------
\* Operations of the header (the returned interface, lines 317-325)

Called(op, arg) == lastCall' = [op |-> op, arg |-> arg]

Show ==
    /\ Apply(ShowOp(Cur, geom))
    /\ Called("show", FALSE)
    /\ UNCHANGED <<cfgVars, envVars, navVars, selVars, ifrVars>>

Hide ==
    /\ Apply(HideOp(Cur))
    /\ Called("hide", FALSE)
    /\ UNCHANGED <<cfgVars, envVars, navVars, selVars, ifrVars>>

Update(resetDocking) ==
    /\ Apply(UpdateChromeUi(Cur, resetDocking, geom))
    /\ Called("update", resetDocking)
    /\ UNCHANGED <<cfgVars, envVars, navVars, selVars, ifrVars>>

UpdateModeCall ==
    /\ Apply(UpdateMode(Cur, TRUE, geom))
    /\ Called("updateMode", TRUE)
    /\ UNCHANGED <<cfgVars, envVars, navVars, selVars, ifrVars>>

RepositionPopupsCall ==
    /\ Apply(RepositionPopups(Cur))
    /\ Called("repositionPopups", FALSE)
    /\ UNCHANGED <<cfgVars, envVars, navVars, selVars, ifrVars>>

\* The world around the header

Env == Apply(Cur) /\ Called("env", FALSE) /\ UNCHANGED <<cfgVars, navVars, selVars, ifrVars>>

EditorRemove ==
    /\ ~removed
    /\ removed' = TRUE
    /\ Env /\ UNCHANGED <<floatContainer, geom>>

Layout ==
    /\ \E g \in MainGeoms : g # geom /\ geom' = g
    /\ Env /\ UNCHANGED <<removed, floatContainer>>

FloatContainerSet ==
    /\ ~floatContainer
    /\ floatContainer' = TRUE
    /\ Env /\ UNCHANGED <<removed, geom>>

FloatContainerClear ==
    /\ floatContainer
    /\ floatContainer' = FALSE
    /\ Env /\ UNCHANGED <<removed, geom>>

Next ==
    \/ Show
    \/ Hide
    \/ \E resetDocking \in BOOLEAN : Update(resetDocking)
    \/ UpdateModeCall
    \/ RepositionPopupsCall
    \/ EditorRemove
    \/ Layout
    \/ FloatContainerSet
    \/ FloatContainerClear

Spec == Init /\ [][Next]_vars

\* the mode resolver on every layout of the grid, through the two
\* operations that call it
NextCalcMode == Show \/ UpdateModeCall

SpecCalcMode == InitCalcMode /\ [][NextCalcMode]_vars

----------------------------------------------------------------------------
\* Reading the log of the last call

Count(seq, e) == Cardinality({i \in DOMAIN seq : seq[i] = e})

Has(seq, e) == \E i \in DOMAIN seq : seq[i] = e

PassEntries == {"updateChromeUi:reset", "updateChromeUi:refresh"}

Passes(seq) == Cardinality({i \in DOMAIN seq : seq[i] \in PassEntries})

\* the header is Hidden: not shown since the last hide, or the editor removed
Hidden == ~(visible /\ ~removed)

----------------------------------------------------------------------------
\* C1: while the header is not visible, update(resetDocking), with either
\* value of resetDocking, changes nothing: no style, attribute or mode is
\* written, the split toolbar is not refreshed, Docking is neither reset nor
\* refreshed and nothing is broadcast.
C1_HiddenUpdateNoEffect ==
    [][(lastCall'.op = "update" /\ Hidden) => (UNCHANGED domVars /\ log' = <<>>)]_vars

\* an update(true) on a header that was shown and styled, then lost its editor
C1_Witness ==
    /\ lastCall = [op |-> "update", arg |-> TRUE]
    /\ visible /\ removed
    /\ outerPosition = Some("absolute")
    /\ log = <<>>

----------------------------------------------------------------------------
----------------------------------------------------------------------------
\* C3: updateMode() on a Visible header with sticky docking and no fixed
\* container: when the resolver's mode differs from the stored one, exactly
\* one update pass runs and it resets docking; when it is the same, no pass
\* runs; and no mode is computed once a pass has started.
C3_ModeChangeOnePass ==
    [][(/\ lastCall'.op = "updateMode"
        /\ ~Hidden /\ isSticky /\ ~useFixedToolbarContainer) =>
          /\ floatContainer <=> Has(log', "calcMode")
          /\ Count(log', "updateChromeUi:refresh") = 0
          /\ IF Has(log', "calcMode") /\ calcResult'[1] # dockingMode
             THEN Count(log', "updateChromeUi:reset") = 1
             ELSE Count(log', "updateChromeUi:reset") = 0
          /\ \A i, j \in DOMAIN log' :
                (log'[i] \in PassEntries /\ i < j) => log'[j] # "calcMode"]_vars

\* an updateMode() that changed the mode and ran its pass
C3_Witness ==
    /\ lastCall.op = "updateMode"
    /\ Has(log, "setDockingMode")
    /\ Count(log, "updateChromeUi:reset") = 1
    /\ Has(log, "Docking.reset")

----------------------------------------------------------------------------
\* C4: updateMode() changes nothing (stored mode, allowed docking modes,
\* vertical direction, container styles; no pass) when the fixed container
\* is configured, or sticky docking is off, or the header is Hidden.
C4_UpdateModeGuard ==
    [][(/\ lastCall'.op = "updateMode"
        /\ (useFixedToolbarContainer \/ ~isSticky \/ Hidden)) =>
          (UNCHANGED domVars /\ log' = <<>>)]_vars

\* an updateMode() stopped by the sticky option alone, on a layout that
\* resolves to the other mode
C4_Witness ==
    /\ lastCall.op = "updateMode"
    /\ ~isSticky /\ ~useFixedToolbarContainer /\ visible /\ ~removed
    /\ floatContainer
    /\ CalcMode(geom) # dockingMode
    /\ log = <<>>

----------------------------------------------------------------------------
\* The stages of an update pass, in the order of the pass; the writes a
\* stage makes belong to it

StageRank(e) ==
    CASE e \in {"updateChromeWidth", "float.max-width"} -> 1
      [] e = "restoreWidth" -> 2
      [] e = "refreshToolbar" -> 3
      [] e \in {"updateChromePosition", "outer.setAll"} -> 4
      [] e \in {"Docking.reset", "Docking.refresh"} -> 5
      [] e = "repositionPopups" -> 6
      [] OTHER -> 0

StageCalls ==
    {"updateChromeWidth", "restoreWidth", "refreshToolbar", "updateChromePosition",
     "Docking.reset", "Docking.refresh", "repositionPopups"}

\* C5: in every update pass that runs, the stages the configuration enables
\* run once each, in the order max-width, full-width measurement, split
\* toolbar refresh, repositioning, docking reset or refresh, broadcast; the
\* broadcast ends the pass.
C5_StageOrder ==
    Passes(log) > 0 =>
        LET p == CHOOSE i \in DOMAIN log : log[i] \in PassEntries
        IN  /\ Passes(log) = 1
            /\ \A i \in DOMAIN log : StageRank(log[i]) > 0 => i > p
            /\ \A i, j \in DOMAIN log :
                  (i < j /\ StageRank(log[i]) > 0 /\ StageRank(log[j]) > 0) =>
                      /\ StageRank(log[i]) <= StageRank(log[j])
                      /\ (log[i] \in StageCalls /\ log[j] \in StageCalls) =>
                             StageRank(log[i]) < StageRank(log[j])
            /\ log[Len(log)] = "repositionPopups"
            /\ Has(log, "updateChromeWidth") <=> ~useFixedToolbarContainer
            /\ Has(log, "restoreWidth") <=> ~useFixedToolbarContainer
            /\ Has(log, "refreshToolbar") <=> toolbarMode \in {"sliding", "floating"}
            /\ Has(log, "updateChromePosition") <=> ~useFixedToolbarContainer
            /\ (Has(log, "Docking.reset") \/ Has(log, "Docking.refresh"))
                   <=> (isSticky /\ floatContainer)

\* a pass in which all six stages ran
C5_Witness ==
    /\ lastCall.op = "update"
    /\ Passes(log) = 1
    /\ \A e \in {"updateChromeWidth", "restoreWidth", "refreshToolbar",
                 "updateChromePosition", "Docking.refresh", "repositionPopups"} :
           Has(log, e)

----------------------------------------------------------------------------
\* What show() does before it turns to the mode and the pass

ShowPrefix ==
    <<"visible.set:true", "outer.display:flex", "body.addClass",
      "mothership.display:remove">>

ModeEntries == {"calcMode", "Docking.setModes", "setDockingMode", "float.verticalDir"}

\* the log is: the four writes, then the mode recomputation, then one pass
\* that refreshes docking
ShowLogAsClaimed(l) ==
    /\ Len(l) > 4 /\ SubSeq(l, 1, 4) = ShowPrefix
    /\ Count(l, "updateChromeUi:refresh") = 1
    /\ Count(l, "updateChromeUi:reset") = 0
    /\ LET p == CHOOSE i \in DOMAIN l : l[i] = "updateChromeUi:refresh"
       IN  /\ \A i \in DOMAIN l : l[i] \in ModeEntries => (4 < i /\ i < p)
           /\ \A i \in DOMAIN l : StageRank(l[i]) > 0 => i > p
           /\ \A i \in 5..(p - 1) : l[i] \in ModeEntries

\* C6, as claimed: show() on a Hidden header does the four writes, the mode
\* recomputation and then exactly one update pass, with resetDocking false.
C6_ShowAsClaimed ==
    [][(lastCall'.op = "show" /\ Hidden) => ShowLogAsClaimed(log')]_vars

\* C6, amended: the same, provided the editor has not been removed; on a
\* removed editor show() does the four writes and nothing else.
C6_ShowOrder ==
    [][(lastCall'.op = "show" /\ Hidden) =>
          IF removed
          THEN log' = ShowPrefix
          ELSE /\ ShowLogAsClaimed(log')
               /\ (isSticky /\ ~useFixedToolbarContainer /\ floatContainer)
                      <=> (Len(log') > 4 /\ log'[5] = "calcMode")]_vars

\* a show() whose mode recomputation changed the stored mode
C6_Witness ==
    /\ lastCall.op = "show"
    /\ visible /\ ~removed
    /\ Has(log, "setDockingMode")
    /\ Count(log, "updateChromeUi:refresh") = 1
    /\ Has(log, "Docking.refresh")

----------------------------------------------------------------------------
\* The mode resolver, on the layout it was last run on (SpecCalcMode never
\* changes the layout, so calcResult belongs to geom)

Resolved == calcResult # None

\* h of the claims: the container's height less the overflow drawer's, the
\* drawer counting when the toolbar is split and has a second row
EffectiveHeight ==
    geom.containerHeight -
        (IF /\ toolbarMode \in {"sliding", "floating"}
            /\ geom.toolbar # None
            /\ geom.toolbar[1] > 1
         THEN geom.overflowHeight
         ELSE 0)

DocumentHeight == Max(geom.scrollHeight, geom.docElHeight)

NoRoomAtTop == geom.y <= EffectiveHeight

NoRoomAtBottom == geom.bottom >= DocumentHeight - EffectiveHeight

\* C7: a configured location of top resolves to top and one of bottom to
\* bottom, whatever the target, the toolbar, the document and the viewport.
C7_ForcedLocation ==
    Resolved =>
        /\ toolbarLocation = "top" => calcResult = Some("top")
        /\ toolbarLocation = "bottom" => calcResult = Some("bottom")

\* bottom is forced on a layout that has room at the top
C7_Witness ==
    /\ toolbarLocation = "bottom"
    /\ calcResult = Some("bottom")
    /\ geom.y > EffectiveHeight

----------------------------------------------------------------------------
\* C8: in auto mode, target.y > h resolves to top whatever the document and
\* the viewport; otherwise documentHeight - target.bottom > h resolves to
\* bottom whatever the viewport.
C8_AutoTopThenBottom ==
    (Resolved /\ toolbarLocation = "auto") =>
        /\ geom.y > EffectiveHeight => calcResult = Some("top")
        /\ (geom.y <= EffectiveHeight /\ DocumentHeight - geom.bottom > EffectiveHeight)
               => calcResult = Some("bottom")

\* room at the top wins over room below, with a drawer that counts
C8_Witness ==
    /\ toolbarLocation = "auto"
    /\ calcResult = Some("top")
    /\ EffectiveHeight < geom.containerHeight
    /\ geom.y > EffectiveHeight /\ geom.y <= geom.containerHeight
    /\ DocumentHeight - geom.bottom > EffectiveHeight

----------------------------------------------------------------------------
\* C9, as claimed: in auto mode with no room at the top and none at the
\* bottom of the document, the resolver returns bottom exactly when the
\* viewport's bottom is beyond target.bottom + h.
C9_ViewportAsClaimed ==
    (Resolved /\ toolbarLocation = "auto" /\ NoRoomAtTop /\ NoRoomAtBottom) =>
        (calcResult = Some("bottom") <=> geom.winBottom > geom.bottom + EffectiveHeight)

\* C9, amended: ... returns bottom exactly when the viewport's bottom is
\* short of target.bottom - h, and top otherwise.
C9_ViewportTieBreak ==
    (Resolved /\ toolbarLocation = "auto" /\ NoRoomAtTop /\ NoRoomAtBottom) =>
        (calcResult = Some("bottom") <=> geom.winBottom < geom.bottom - EffectiveHeight)

\* the third tier resolving to bottom
C9_Witness ==
    /\ toolbarLocation = "auto" /\ NoRoomAtTop /\ NoRoomAtBottom
    /\ geom.winBottom > 0
    /\ geom.winBottom < geom.bottom - EffectiveHeight
    /\ calcResult = Some("bottom")

----------------------------------------------------------------------------
\* The layout of C10: target.y = 10, toolbar height 40, no document room
C10_Layout ==
    /\ Resolved /\ toolbarLocation = "auto"
    /\ geom.y = Px(10) /\ EffectiveHeight = Px(40)
    /\ NoRoomAtBottom

\* C10, as claimed: on that layout, a viewport bottom below
\* target.bottom + toolbarHeight resolves to bottom.
C10_ExampleAsClaimed ==
    (C10_Layout /\ geom.winBottom < geom.bottom + Px(40)) => calcResult = Some("bottom")

\* C10, amended: on that layout, a viewport bottom below
\* target.bottom - toolbarHeight resolves to bottom.
C10_Example ==
    (C10_Layout /\ geom.winBottom < geom.bottom - Px(40)) => calcResult = Some("bottom")

\* the layout, with the viewport ending 50 px short of the target's end
C10_Witness ==
    /\ C10_Layout
    /\ geom.bottom = Px(60) /\ geom.winBottom = Px(10)
    /\ calcResult = Some("bottom")

----------------------------------------------------------------------------
\* The chrome positioner on layouts that never change: targets at whole and
\* half pixels, inside the window, at its edge and beyond it, on pages
\* scrolled to the right by nothing, a little and a lot

MaxXStep == 2

PosGeoms ==
    [x : {Px(10) + 1} \cup {Px(400 + 50 * i) : i \in 0..MaxXStep},
     y : {Px(10), Px(50), Px(50) + 1}, bottom : {Px(60), Px(60) + 1},
     containerHeight : {Px(40)}, toolbar : {Some(1), Some(2)},
     overflowHeight : {Px(10)}, scrollHeight : {Px(200)},
     docElHeight : {Px(60)}, winBottom : {Px(60)},
     innerWidth : {Px(400)}, scrollLeft : {Px(0), Px(100), Px(1100)},
     fullWidth : {Px(100), Px(400)}, bodyWidth : {Px(800)}, bodyMargin : {Px(8)}]

InitPosition ==
    /\ useFixedToolbarContainer \in BOOLEAN
    /\ isSticky \in BOOLEAN
    /\ toolbarLocation \in ToolbarLocations
    /\ toolbarMode \in {"floating", "wrap"}
    /\ editorMaxWidthOpt = None
    /\ floatContainer \in BOOLEAN
    /\ geom \in PosGeoms
    /\ InitHeader

NextPosition ==
    \/ Show
    \/ \E resetDocking \in BOOLEAN : Update(resetDocking)
    \/ UpdateModeCall

SpecPosition == InitPosition /\ [][NextPosition]_vars

\* the last call repositioned the chrome: Css.setAll ran
Repositioned == Has(log, "outer.setAll")

AvailableWidth == geom.innerWidth - (geom.x - geom.scrollLeft)

DrawerOffset == geom.containerHeight - EffectiveHeight

----------------------------------------------------------------------------
\* C11: repositioning writes a width to the outer container only when a full
\* width was measured and target.x exceeds the viewport width, and the width
\* is then max(150, min(fullWidth, viewportWidth - (target.x - scrollLeft))):
\* never below 150, never above a full width of 150 or more; 50 available
\* of a full 400 gives 150 and 1000 available gives 400.  Otherwise no width
\* is written.
C11_WidthClamp ==
    /\ outerWidth # None =>
          /\ ~useFixedToolbarContainer /\ geom.x > geom.innerWidth
          /\ outerWidth[1] >= Px(150)
          /\ geom.fullWidth >= Px(150) => outerWidth[1] <= geom.fullWidth
    /\ Repositioned =>
          /\ geom.x > geom.innerWidth =>
                outerWidth = Some(Max(Px(150), Min(geom.fullWidth, AvailableWidth)))
          /\ geom.x <= geom.innerWidth => outerWidth = None
          /\ (geom.x > geom.innerWidth /\ geom.fullWidth = Px(400)) =>
                /\ AvailableWidth = Px(50) => outerWidth = Some(Px(150))
                /\ AvailableWidth = Px(1000) => outerWidth = Some(Px(400))

\* 50 px available of a full width of 400
C11_Witness ==
    /\ Repositioned
    /\ geom.x > geom.innerWidth
    /\ AvailableWidth = Px(50) /\ geom.fullWidth = Px(400)
    /\ outerWidth = Some(Px(150))

----------------------------------------------------------------------------
TopBeforeRounding ==
    IF dockingMode = "top"
    THEN Max(geom.y - geom.containerHeight + DrawerOffset, 0)
    ELSE geom.bottom

\* C12, as claimed: repositioning applies top = max(target.y -
\* containerHeight + offset, 0) in top mode and target.bottom in bottom
\* mode, left = target.x, position absolute.
C12_PositionAsClaimed ==
    Repositioned =>
        /\ outerTop = Some(TopBeforeRounding)
        /\ outerLeft = Some(geom.x)
        /\ outerPosition = Some("absolute")

\* C12, amended: the top and the left applied are those values rounded to
\* the nearest whole pixel; the top is never negative in top mode.
C12_Position ==
    Repositioned =>
        /\ outerTop = Some(Px((TopBeforeRounding + 1) \div 2))
        /\ outerLeft = Some(Px((geom.x + 1) \div 2))
        /\ outerPosition = Some("absolute")
        /\ dockingMode = "top" => outerTop[1] >= 0

\* top mode, on a target too near the page's top for the container
C12_Witness ==
    /\ Repositioned
    /\ dockingMode = "top"
    /\ geom.y - geom.containerHeight + DrawerOffset < 0
    /\ outerTop = Some(0)
    /\ outerLeft = Some(Px(11)) /\ geom.x = Px(10) + 1

----------------------------------------------------------------------------
\* The navigation handlers, beside a header that is left alone

InitNav ==
    /\ navDirection \in {"ltr", "rtl"}
    /\ navManaged \in BOOLEAN
    /\ domFocus \in MoveResults
    /\ managerFocus \in MoveResults
    /\ navCall = "none"
    /\ navLog = <<>>
    /\ navOutcome = None
    /\ useFixedToolbarContainer = FALSE
    /\ isSticky = TRUE
    /\ toolbarLocation = "auto"
    /\ toolbarMode = "wrap"
    /\ editorMaxWidthOpt = None
    /\ floatContainer = TRUE
    /\ geom \in {g \in MainGeoms : g.x < g.innerWidth /\ g.y = Px(50)}
    /\ removed = FALSE
    /\ visible = FALSE
    /\ dockingMode = "top"
    /\ dockingModes = Modes
    /\ verticalDir = None
    /\ floatMaxWidth = None
    /\ outerDisplay = None
    /\ outerPosition = None
    /\ outerLeft = None
    /\ outerTop = None
    /\ outerWidth = None
    /\ editFocus = FALSE
    /\ mothershipDisplay = None
    /\ calcResult = None
    /\ lastCall = [op |-> "init", arg |-> FALSE]
    /\ log = <<>>
    /\ SelIdle
    /\ IfrIdle

NextNav == WestKey \/ EastKey \/ NorthKey \/ SouthKey \/ MoveKey \/ FocusMoves

SpecNav == InitNav /\ [][NextNav]_vars

----------------------------------------------------------------------------
\* Reading a handler run

Handlers == {"west", "east", "north", "south", "move"}

\* what the lookup of the run finds, seen from before the run
FocusedBefore == IF navManaged THEN managerFocus ELSE domFocus

Commits(l) == Count(l, "manager.set") + Count(l, "triggerFocus")

MovesAsked(l) == Count(l, "moveLeft") + Count(l, "moveRight") + Count(l, "move")

\* C13: in a left-to-right host west uses moveLeft and east moveRight, in a
\* right-to-left host west uses moveRight and east moveLeft; a run never
\* invokes the other function, and invokes the one it uses once when a
\* descendant is focused and not at all otherwise.
C13_Directionality ==
    [][navCall' \in {"west", "east"} =>
          LET leftward == (navCall' = "west") <=> (navDirection = "ltr")
              used == IF leftward THEN "moveLeft" ELSE "moveRight"
              other == IF leftward THEN "moveRight" ELSE "moveLeft"
          IN  /\ Count(navLog', other) = 0
              /\ Count(navLog', "move") = 0
              /\ Count(navLog', used) = IF FocusedBefore = None THEN 0 ELSE 1]_vars

\* west in a right-to-left host, with a descendant focused
C13_Witness ==
    /\ navCall = "west" /\ navDirection = "rtl"
    /\ Count(navLog, "moveRight") = 1 /\ Count(navLog, "moveLeft") = 0

----------------------------------------------------------------------------
\* C14: when no descendant is focused, every handler, with or without a
\* focus manager, returns the empty outcome, asks no movement function and
\* commits no focus.
C14_NoFocusNoCommit ==
    [][(navCall' \in Handlers /\ FocusedBefore = None) =>
          /\ navOutcome' = None
          /\ MovesAsked(navLog') = 0
          /\ Commits(navLog') = 0
          /\ UNCHANGED <<domFocus, managerFocus>>]_vars

\* a managed component whose manager reports nothing, DOM focus inside it
C14_Witness ==
    /\ navCall \in Handlers
    /\ navManaged /\ managerFocus = None /\ domFocus # None
    /\ navLog = <<"manager.get">>
    /\ navOutcome = None

----------------------------------------------------------------------------
\* C15: with a descendant focused, a handler reports the event consumed
\* exactly when the movement function produced a target; the target is then
\* committed once, by the manager's set when there is a manager and by
\* triggerFocus otherwise, never both; a declined movement commits nothing.
C15_ConsumedIffMoved ==
    [][(navCall' \in Handlers /\ FocusedBefore # None) =>
          /\ MovesAsked(navLog') = 1
          /\ navOutcome' = Some(TRUE) <=> Has(navLog', "returned:target")
          /\ navOutcome' = None <=> Has(navLog', "returned:none")
          /\ IF Has(navLog', "returned:target")
             THEN /\ Count(navLog', "manager.set") = IF navManaged THEN 1 ELSE 0
                  /\ Count(navLog', "triggerFocus") = IF navManaged THEN 0 ELSE 1
                  /\ navLog'[Len(navLog')] \in {"manager.set", "triggerFocus"}
                  /\ IF navManaged
                     THEN managerFocus' # None /\ domFocus' = domFocus
                     ELSE domFocus' # None /\ managerFocus' = managerFocus
             ELSE /\ Commits(navLog') = 0
                  /\ UNCHANGED <<domFocus, managerFocus>>]_vars

\* a managed component: the target goes to the manager, DOM focus stays out
C15_Witness ==
    /\ navCall \in Handlers
    /\ navManaged /\ domFocus = None
    /\ navLog = <<"manager.get", "move", "returned:target", "manager.set">>
    /\ navOutcome = Some(TRUE)
    /\ managerFocus # None

----------------------------------------------------------------------------
DockingCalls(l) == Count(l, "Docking.reset") + Count(l, "Docking.refresh")

\* C16: with no float container, update() and updateMode() on a Visible
\* header leave the outer container's position, left, top and width, the
\* stored docking mode and the Docking Controller as they were.
C16_NoFloatNoEffect ==
    [][(/\ lastCall'.op \in {"update", "updateMode"}
        /\ ~Hidden /\ ~floatContainer) =>
          /\ UNCHANGED <<outerPosition, outerLeft, outerTop, outerWidth>>
          /\ UNCHANGED <<dockingMode, dockingModes>>
          /\ DockingCalls(log') = 0]_vars

----------------------------------------------------------------------------
\* C17, as claimed: in an update pass, sticky docking gets the Docking
\* Controller exactly one call, reset under resetDocking and refresh
\* otherwise; without sticky docking it gets none; one broadcast ends the
\* pass.
C17_DockingCallAsClaimed ==
    Passes(log) = 1 =>
        LET reset == Has(log, "updateChromeUi:reset")
        IN  /\ isSticky =>
                  /\ Count(log, "Docking.reset") = IF reset THEN 1 ELSE 0
                  /\ Count(log, "Docking.refresh") = IF reset THEN 0 ELSE 1
            /\ ~isSticky => DockingCalls(log) = 0
            /\ Count(log, "repositionPopups") = 1
            /\ log[Len(log)] = "repositionPopups"

\* C17, amended: ... sticky docking with the float container set gets the
\* Docking Controller exactly one call ...; without sticky docking, or with
\* no float container, it gets none; one broadcast ends the pass.
C17_DockingCall ==
    Passes(log) = 1 =>
        LET reset == Has(log, "updateChromeUi:reset")
        IN  /\ (isSticky /\ floatContainer) =>
                  /\ Count(log, "Docking.reset") = IF reset THEN 1 ELSE 0
                  /\ Count(log, "Docking.refresh") = IF reset THEN 0 ELSE 1
            /\ (~isSticky \/ ~floatContainer) => DockingCalls(log) = 0
            /\ Count(log, "repositionPopups") = 1
            /\ log[Len(log)] = "repositionPopups"

\* update(true) with sticky docking: one reset
C17_Witness ==
    /\ lastCall = [op |-> "update", arg |-> TRUE]
    /\ isSticky /\ floatContainer
    /\ Count(log, "Docking.reset") = 1 /\ Count(log, "Docking.refresh") = 0
    /\ log[Len(log)] = "repositionPopups"

----------------------------------------------------------------------------
\* C18: the stored docking mode is always top or bottom; and when a call
\* changes it, the pass that follows starts with the Docking Controller
\* allowing the new mode alone and the float container's vertical direction
\* top-to-bottom for top, bottom-to-top for bottom.
C18_ModeTransition ==
    /\ dockingMode \in {"top", "bottom"}
    /\ Has(log, "setDockingMode") =>
          /\ dockingModes = {dockingMode}
          /\ verticalDir = IF dockingMode = "top" THEN "toptobottom" ELSE "bottomtotop"
          /\ \A i, j \in DOMAIN log :
                (log[i] \in PassEntries /\
                 log[j] \in {"Docking.setModes", "setDockingMode", "float.verticalDir"})
                    => j < i

\* updateMode() turned the header to bottom and ran its pass
C18_Witness ==
    /\ lastCall.op = "updateMode"
    /\ Has(log, "setDockingMode") /\ Passes(log) = 1
    /\ dockingMode = "bottom" /\ dockingModes = {"bottom"}
    /\ verticalDir = "bottomtotop"

----------------------------------------------------------------------------
\* C19: the visibility flag changes only in show() and hide(), the stored
\* docking mode only in updateMode() and show(); update(),
\* repositionPopups() and hide() leave the docking mode as it is.
C19_Writers ==
    [][/\ visible' # visible => lastCall'.op \in {"show", "hide"}
       /\ dockingMode' # dockingMode => lastCall'.op \in {"updateMode", "show"}
       /\ lastCall'.op \in {"update", "repositionPopups"} =>
              UNCHANGED <<visible, dockingMode>>
       /\ lastCall'.op = "hide" => UNCHANGED dockingMode]_vars

\* an update pass on a layout that resolves to the other mode
C19_Witness ==
    /\ lastCall.op = "update" /\ Passes(log) = 1
    /\ isSticky /\ ~useFixedToolbarContainer /\ floatContainer
    /\ CalcMode(geom) # dockingMode

----------------------------------------------------------------------------
\* C20: under the fixed toolbar container an update pass writes no
\* max-width, position, left, top or width, while it refreshes the split
\* toolbar when the toolbar is split and sends the broadcast.
C20_FixedContainerPass ==
    [][(useFixedToolbarContainer /\ Passes(log') > 0) =>
          /\ UNCHANGED <<floatMaxWidth, outerPosition, outerLeft, outerTop, outerWidth>>
          /\ \A e \in {"updateChromeWidth", "float.max-width", "restoreWidth",
                       "updateChromePosition", "outer.setAll"} : ~Has(log', e)
          /\ Has(log', "refreshToolbar") <=> toolbarMode \in {"sliding", "floating"}
          /\ Count(log', "repositionPopups") = 1]_vars

\* a pass under the fixed container, with a split toolbar
C20_Witness ==
    /\ useFixedToolbarContainer /\ toolbarMode = "floating"
    /\ lastCall.op = "update" /\ Passes(log) = 1
    /\ Has(log, "refreshToolbar") /\ Has(log, "repositionPopups")
    /\ outerPosition = None /\ floatMaxWidth = None

----------------------------------------------------------------------------
\* The registry, beside a header and a navigable component left alone

HeaderLeftAlone ==
    /\ useFixedToolbarContainer = FALSE
    /\ isSticky = TRUE
    /\ toolbarLocation = "auto"
    /\ toolbarMode = "wrap"
    /\ editorMaxWidthOpt = None
    /\ floatContainer = TRUE
    /\ geom \in {g \in MainGeoms : g.x < g.innerWidth /\ g.y = Px(50)}
    /\ dockingMode = "top"

InitSelector ==
    /\ HeaderLeftAlone
    /\ InitHeader

NextSelector ==
    \/ \E callback \in Callbacks : Register(callback)
    \/ \E callback \in Callbacks : Unbind(callback)
    \/ SelectionMoves
    \/ NodeChange
    \/ Notify
    \/ RoundEnds

SpecSelector == InitSelector /\ [][NextSelector]_vars

\* C21: a callback whose unbind() has been called is not invoked again for
\* the selector, whether unbind() was called between NodeChange events or
\* from inside a callback during a notification round.
C21_UnboundNeverInvoked ==
    invoked # None => invoked[1].callback \notin unbound

----------------------------------------------------------------------------
\* C22: the notifications a registered callback that is not unbound
\* receives alternate between active = true and active = false: none
\* repeats the active value of the one before it.
C22_Alternates ==
    [][(invoked' # None /\ invoked'[1].callback \notin unbound') =>
          received[invoked'[1].callback] # Some(invoked'[1].active)]_vars

----------------------------------------------------------------------------
\* The iframe manager, beside the rest left alone

InitIframe == HeaderLeftAlone /\ InitHeader

NextIframe == Load \/ Reset \/ RemoveEvent \/ LoadEvent \/ UnloadEvent \/ ReloadTimer

SpecIframe == InitIframe /\ [][NextIframe]_vars

\* C23: at most one 'load' listener and at most one 'unload' listener are
\* bound at any time; the loaded callback of a load() call runs at most
\* once; after reset(), until load() is called again, no listener is bound
\* and a 'load' or 'unload' event invokes nothing.
C23_Binders ==
    /\ Cardinality(loadListeners) <= 1
    /\ Cardinality(unloadListeners) <= 1
    /\ \A n \in 1..MaxLoads : loadedRuns[n] <= 1
    /\ sinceReset =>
          /\ loadListeners = {} /\ unloadListeners = {}
          /\ ifrCall \in {"loadEvent", "unloadEvent"} => ifrInvoked = None

\* a load() whose callback ran, a reload that ran the restore handler
\* instead, then reset() and a 'load' event that invoked nothing
C23_Witness ==
    /\ loadCalls = 1 /\ loadedRuns[1] = 1
    /\ restored
    /\ sinceReset
    /\ ifrCall = "loadEvent" /\ ifrInvoked = None

====
